---- MODULE Spec2Model ----
\* Model of kojustin/orderservice (src/main.go): the OrderService methods
\* Insert, List and Take running as concurrent request handlers against one
\* SQLite store (database/sql + mattn/go-sqlite3, rollback-journal locking).
EXTENDS Integers, Sequences, FiniteSets, TLC

\* ---------------------------------------------------------------- bounds
NumProcs == 2
MaxOrders == 2

Procs == 1..NumProcs
\* ids a PATCH /orders/<id> may name (an id names no row until it is inserted)
OrderIDs == 1..MaxOrders
\* distance values a lookup element may carry (0 is the zero value of an
\* element without a usable "distance" object)
Distances == {0, 7}
Pages == {0, 1}
Limits == {2}

\* ---------------------------------------------------------------- constants
StateUnassigned == "UNASSIGNED"
StateTaken == "TAKEN"
errTaken == "already taken"
errNoSuchOrder == "no such order"
nil == "nil"

\* float64(int64): exact for every |v| < 2^53, which covers all modelled values
Float64(v) == v

VARIABLES
    rows,      \* table orders: committed rows in rowid order
    lock,      \* SQLite file lock held by each handler's connection
    pc,        \* position of each handler
    orderID,   \* Take: argument
    err,       \* Take: the variable err the deferred function inspects
    ret,       \* value the call returns: [val |-> orders, err |-> error]
    tx,        \* Take: state of the *sql.Tx
    expired,   \* Take: ctx of the call is done (2 s deadline passed)
    mapResponse, \* Insert: the lookup response received (rows: what was decoded)
    page,      \* List: argument
    limit,     \* List: argument
    cursor,    \* List: rows of the open *sql.Rows
    fault,     \* history: the store call of this invocation that failed
    effect,    \* history: this invocation changed the committed rows
    stmts,     \* history: this invocation issued a store statement
    found,     \* history: Take: a row with orderID existed when the call began
    prior,     \* history: Take: a Take on orderID had returned nil before the call began
    again,     \* history: Take: a Take on orderID had returned nil before this one returned
    succeeded, \* history: ids on which a Take has returned nil
    request,   \* POST /orders: the body of the request being handled
    response,  \* what the handler wrote: [code |-> status code, body |-> value encoded]
    disconnected, \* the client of the request has closed its connection
    stalled    \* the store has stopped answering

vars == <<rows, lock, pc, orderID, err, ret, tx, expired, mapResponse, page, limit,
          cursor, fault, effect, stmts, found, prior, again, succeeded,
          request, response, disconnected, stalled>>

\* ---------------------------------------------------------------- helpers
NoRet == [val |-> <<>>, err |-> nil]
RetErr(e) == [val |-> <<>>, err |-> e]

\* Order{Id, Distance, State}
Order(id, d, s) == [Id |-> id, Distance |-> d, State |-> s]

\* SELECT (status) FROM orders where id == ?
RECURSIVE SelectStatus(_, _)
SelectStatus(rs, id) ==
    IF rs = <<>> THEN <<>>
    ELSE (IF Head(rs).id = id THEN <<Head(rs).status>> ELSE <<>>)
             \o SelectStatus(Tail(rs), id)

\* variant of TakeCheck: the status is compared with StateTaken
TakeCheckTakenMut(res) ==
    IF res = <<>> THEN errNoSuchOrder
    ELSE IF Head(res) = StateTaken THEN errTaken
    ELSE nil
\* variant of TakeCheck: a missing row is answered as already taken
TakeCheckMut(res) ==
    IF res = <<>> THEN errTaken
    ELSE IF Head(res) # StateUnassigned THEN errTaken
    ELSE nil
\* Take, lines 219-233: rows.Next(), rows.Scan(&status), status check
TakeCheck(res) ==
    IF res = <<>> THEN errNoSuchOrder
    ELSE IF Head(res) # StateUnassigned THEN errTaken
    ELSE nil

\* variant of UpdateStatus: the statement also sets distance
UpdateStatusDistanceMut(rs, id) ==
    [i \in DOMAIN rs |->
        IF rs[i].id = id THEN [rs[i] EXCEPT !.status = StateTaken, !.distance = 0] ELSE rs[i]]
\* variant of UpdateStatus: the statement has no WHERE clause
UpdateStatusAllMut(rs, id) ==
    [i \in DOMAIN rs |-> [rs[i] EXCEPT !.status = StateTaken]]
\* variant of UpdateStatus: the statement writes another status literal
UpdateStatusMut(rs, id) ==
    [i \in DOMAIN rs |->
        IF rs[i].id = id THEN [rs[i] EXCEPT !.status = "ASSIGNED"] ELSE rs[i]]
\* UPDATE orders SET status = ? WHERE id = ?   with string(StateTaken)
UpdateStatus(rs, id) ==
    [i \in DOMAIN rs |->
        IF rs[i].id = id THEN [rs[i] EXCEPT !.status = StateTaken] ELSE rs[i]]

\* variant of LastInsertId: the id of the last existing row is given again
LastInsertIdMut(rs) == IF rs = <<>> THEN 1 ELSE Len(rs)
\* id the store generates for the next row (rows are never deleted)
LastInsertId(rs) == Len(rs) + 1

\* variant of InsertRow: the statement writes the status literal "unassigned"
InsertRowLowerMut(rs, d) ==
    Append(rs, [id |-> LastInsertId(rs), distance |-> d, status |-> "unassigned"])
\* variant of InsertRow: the statement writes the status literal "INITAL"
InsertRowMut(rs, d) ==
    Append(rs, [id |-> LastInsertId(rs), distance |-> d, status |-> "INITAL"])
\* INSERT INTO orders (distance, status) values(?, ?)  with string(StateUnassigned)
InsertRow(rs, d) ==
    Append(rs, [id |-> LastInsertId(rs), distance |-> d, status |-> StateUnassigned])

\* responses of the distance lookup: transport failure, a body the decoder
\* rejects (rows holds what was decoded before the error), and decodable bodies
LookupResponses ==
    {[neterr |-> TRUE, decodable |-> FALSE, rows |-> <<>>],
     [neterr |-> FALSE, decodable |-> FALSE, rows |-> <<>>],
     [neterr |-> FALSE, decodable |-> FALSE, rows |-> << <<0>> >>],
     [neterr |-> FALSE, decodable |-> TRUE, rows |-> <<>>],
     [neterr |-> FALSE, decodable |-> TRUE, rows |-> << <<>> >>],
     [neterr |-> FALSE, decodable |-> TRUE, rows |-> << <<7, 0>>, <<0>> >>]}
    \cup {[neterr |-> FALSE, decodable |-> TRUE, rows |-> << <<d>> >>] : d \in Distances}

\* mapResponse before the lookup: var mapResponse GoogleMapsResponse
NoResponse == [neterr |-> FALSE, decodable |-> FALSE, rows |-> <<>>]

\* variant of LookupError: the result of Decode is not read
LookupErrorMut(r) ==
    IF r.neterr THEN "failed http.Client{}.Get()"
    ELSE IF Len(r.rows) = 0 THEN "Google Maps response missing rows"
    ELSE IF Len(r.rows[1]) = 0 THEN "Google Maps response missing rows.elements"
    ELSE nil
\* Insert, lines 107-133: the error the lookup part returns, nil if none
LookupError(r) ==
    IF r.neterr THEN "failed http.Client{}.Get()"
    ELSE IF ~r.decodable THEN "unable to decode response"
    ELSE IF Len(r.rows) = 0 THEN "Google Maps response missing rows"
    ELSE IF Len(r.rows[1]) = 0 THEN "Google Maps response missing rows.elements"
    ELSE nil

\* firstElement.Distance.Value
FirstDistance(r) == r.rows[1][1]

\* the Order Insert returns, lines 146-150
NewOrder(lastId, d) == Order(lastId, Float64(d), StateUnassigned)

\* variant of Window: the offset given to the statement is page * limit
WindowMut(rs, pg, lm) ==
    LET off == IF pg < 0 THEN 0 ELSE pg * lm
        hi  == IF lm < 0 \/ off + lm > Len(rs) THEN Len(rs) ELSE off + lm
    IN  SubSeq(rs, off + 1, hi)
\* variant of Window: the statement has no LIMIT clause
WindowNoLimitMut(rs, pg, lm) ==
    LET off == IF pg < 0 THEN 0 ELSE pg
    IN  SubSeq(rs, off + 1, Len(rs))
\* SELECT id, distance, status FROM orders LIMIT ? OFFSET ?  (limit, page);
\* SQLite: a negative LIMIT is no limit, a negative OFFSET is 0
Window(rs, pg, lm) ==
    LET off == IF pg < 0 THEN 0 ELSE pg
        hi  == IF lm < 0 \/ off + lm > Len(rs) THEN Len(rs) ELSE off + lm
    IN  SubSeq(rs, off + 1, hi)

\* variant of ListLoop: a row of unknown status is left out
RECURSIVE ListLoopSkipMut(_, _)
ListLoopSkipMut(cur, orders) ==
    IF cur = <<>> THEN [val |-> orders, err |-> nil]
    ELSE LET r == Head(cur) IN
         IF r.status \in {StateTaken, StateUnassigned}
         THEN ListLoopSkipMut(Tail(cur), Append(orders, Order(r.id, Float64(r.distance), r.status)))
         ELSE ListLoopSkipMut(Tail(cur), orders)
\* variant of ListLoop: each order is put in front of those read before it
RECURSIVE ListLoopFrontMut(_, _)
ListLoopFrontMut(cur, orders) ==
    IF cur = <<>> THEN [val |-> orders, err |-> nil]
    ELSE LET r == Head(cur) IN
         IF r.status \in {StateTaken, StateUnassigned}
         THEN ListLoopFrontMut(Tail(cur), <<Order(r.id, Float64(r.distance), r.status)>> \o orders)
         ELSE RetErr("found unknonwn status")
\* List, lines 163-182: the loop over the rows read
RECURSIVE ListLoop(_, _)
ListLoop(cur, orders) ==
    IF cur = <<>> THEN [val |-> orders, err |-> nil]
    ELSE LET r == Head(cur) IN
         IF r.status = StateTaken
         THEN ListLoop(Tail(cur), Append(orders, Order(r.id, Float64(r.distance), StateTaken)))
         ELSE IF r.status = StateUnassigned
         THEN ListLoop(Tail(cur), Append(orders, Order(r.id, Float64(r.distance), StateUnassigned)))
         ELSE RetErr("found unknonwn status")

\* variant of OthersUnlocked: a writer never waits for the readers
OthersUnlockedMut(p) == TRUE
\* no other connection holds a lock on the database file
OthersUnlocked(p) == \A q \in Procs \ {p} : lock[q] = "NONE"
\* another connection holds the RESERVED lock
OtherReserved(p) == \E q \in Procs \ {p} : lock[q] = "RESERVED"

TakePcs == {"take_begin", "take_query", "take_exec", "take_defer"}
DonePcs == {"take_done", "ins_done", "list_done", "http_done"}

\* ---------------------------------------------------------------- handlers
\* a request body: value is what the first JSON value of the body is (an object
\* that fits CreateOrderDetails, well-formed JSON of another type, or text that
\* is not JSON), origin and destination are the lengths of the two lists, and
\* trailing says that text which is not JSON follows the first value
ListLens == {0, 2, 3}
Bodies == [value : {"object", "typeerror", "syntaxerror"},
           origin : ListLens, destination : ListLens, trailing : BOOLEAN]
NoBody == [value |-> "none", origin |-> 0, destination |-> 0, trailing |-> FALSE]

\* variant of parseCreateOrderDetails: destination is checked before origin
parseCreateOrderDetailsMut(input) ==
    IF input.value # "object" THEN "MALFORMED_PAYLOAD"
    ELSE IF input.destination # 2 THEN "MALFORMED_DESTINATION"
    ELSE IF input.origin # 2 THEN "MALFORMED_ORIGIN"
    ELSE nil
\* parseCreateOrderDetails, lines 403-415: json.Decoder.Decode reads the first
\* JSON value of the input and does not look at what follows it
parseCreateOrderDetails(input) ==
    IF input.value # "object" THEN "MALFORMED_PAYLOAD"
    ELSE IF input.origin # 2 THEN "MALFORMED_ORIGIN"
    ELSE IF input.destination # 2 THEN "MALFORMED_DESTINATION"
    ELSE nil

NoReply == [code |-> 0, body |-> <<>>]
Reply(c, b) == [code |-> c, body |-> b]
HTTPResponseError(e) == [error |-> e]
HTTPResponseStatus(st) == [status |-> st]

\* PATCH /orders/<id>: switch err = orderService.Take(orderID); lines 280-302
PatchResponse(e) ==
    CASE e = errNoSuchOrder -> Reply(404, HTTPResponseError("NO_SUCH_ORDER"))
      [] e = errTaken -> Reply(409, HTTPResponseError("ORDER_ALREADY_BEEN_TAKEN"))
      [] e = nil -> Reply(200, HTTPResponseStatus("SUCCESS"))
      [] OTHER -> Reply(500, HTTPResponseError("INTERNAL_ERROR"))
\* POST /orders after orderService.Insert(*details); lines 346-356
PostResponse(r) ==
    IF r.err # nil THEN Reply(500, HTTPResponseError("INTERNAL_FAILURE"))
    ELSE Reply(200, r.val[1])
\* variant of GetResponse: an empty list is answered as an error
GetResponseNotFoundMut(r) ==
    IF r.err # nil THEN Reply(500, HTTPResponseError("INTERNAL_FAILURE"))
    ELSE IF r.val = <<>> THEN Reply(404, HTTPResponseError("NO_ORDERS"))
    ELSE Reply(200, r.val)
\* GET /orders after orderService.List(page, limit); lines 323-333
GetResponse(r) ==
    IF r.err # nil THEN Reply(500, HTTPResponseError("INTERNAL_FAILURE"))
    ELSE Reply(200, r.val)
\* the handler answers in the step in which the call it made returns
Responds(p) ==
    response' = [response EXCEPT ![p] =
                    CASE pc'[p] = "take_done" -> PatchResponse(ret'[p].err)
                      [] pc'[p] = "ins_done" -> PostResponse(ret'[p])
                      [] pc'[p] = "list_done" -> GetResponse(ret'[p])
                      [] OTHER -> NoReply]

\* ---------------------------------------------------------------- Init
Init ==
    /\ rows = <<>>
    /\ lock = [p \in Procs |-> "NONE"]
    /\ pc = [p \in Procs |-> "idle"]
    /\ orderID = [p \in Procs |-> 0]
    /\ err = [p \in Procs |-> nil]
    /\ ret = [p \in Procs |-> NoRet]
    /\ tx = [p \in Procs |-> "none"]
    /\ expired = [p \in Procs |-> FALSE]
    /\ mapResponse = [p \in Procs |-> NoResponse]
    /\ page = [p \in Procs |-> 0]
    /\ limit = [p \in Procs |-> 0]
    /\ cursor = [p \in Procs |-> <<>>]
    /\ fault = [p \in Procs |-> "none"]
    /\ effect = [p \in Procs |-> FALSE]
    /\ stmts = [p \in Procs |-> FALSE]
    /\ found = [p \in Procs |-> FALSE]
    /\ prior = [p \in Procs |-> FALSE]
    /\ again = [p \in Procs |-> FALSE]
    /\ succeeded = {}
    /\ request = [p \in Procs |-> NoBody]
    /\ response = [p \in Procs |-> NoReply]
    /\ disconnected = [p \in Procs |-> FALSE]
    /\ stalled = FALSE

\* ---------------------------------------------------------------- Take
\* PATCH /orders/<id>: the handler calls orderService.Take(orderID); lines 193-201
TakeCall(p, id) ==
    /\ pc[p] = "idle"
    /\ pc' = [pc EXCEPT ![p] = "take_begin"]
    /\ orderID' = [orderID EXCEPT ![p] = id]
    /\ found' = [found EXCEPT ![p] = SelectStatus(rows, id) # <<>>]
    /\ prior' = [prior EXCEPT ![p] = id \in succeeded]
    /\ UNCHANGED <<rows, lock, err, ret, tx, expired, mapResponse, page, limit, cursor,
                   fault, effect, stmts, again, succeeded>>
    /\ UNCHANGED <<request, disconnected, stalled>>
    /\ Responds(p)

\* the 2 s deadline of ctx passes while the call runs (line 194), before one of
\* the calls that read ctx: BeginTx, Query, Exec, Commit; database/sql rolls
\* back a transaction whose context is done
Expire(p) ==
    /\ pc[p] \in TakePcs
    /\ pc[p] = "take_defer" => err[p] = nil
    /\ ~expired[p]
    /\ expired' = [expired EXCEPT ![p] = TRUE]
    /\ tx' = [tx EXCEPT ![p] = IF tx[p] = "open" THEN "rolledback" ELSE tx[p]]
    /\ lock' = [lock EXCEPT ![p] = "NONE"]
    /\ UNCHANGED <<rows, pc, orderID, err, ret, mapResponse, page, limit, cursor,
                   fault, effect, stmts, found, prior, again, succeeded>>
    /\ UNCHANGED <<request, disconnected, stalled>>
    /\ Responds(p)

\* the client of a PATCH request closes its connection while Take runs: the
\* request's context is done, which Take never reads (its ctx derives from
\* s.Context, line 194)
Disconnect(p) ==
    /\ pc[p] \in TakePcs
    /\ ~disconnected[p]
    /\ disconnected' = [disconnected EXCEPT ![p] = TRUE]
    /\ UNCHANGED <<rows, lock, pc, orderID, err, ret, tx, expired, mapResponse, page, limit,
                   cursor, fault, effect, stmts, found, prior, again, succeeded,
                   request, response, stalled>>

\* tx, err = s.DB.BeginTx(ctx, nil); lines 203-206. flt: the store may fail a call
TakeBeginTx(p, flt) ==
    /\ pc[p] = "take_begin"
    /\ \E o \in (IF expired[p] THEN {"err"} ELSE {"ok"} \cup (IF flt THEN {"err"} ELSE {})) :
        IF o = "ok"
        THEN /\ tx' = [tx EXCEPT ![p] = "open"]
             /\ pc' = [pc EXCEPT ![p] = "take_query"]
             /\ UNCHANGED <<ret, fault>>
        ELSE /\ ret' = [ret EXCEPT ![p] = RetErr("failed at BeginTx")]
             /\ fault' = [fault EXCEPT ![p] = "begin"]
             /\ pc' = [pc EXCEPT ![p] = "take_done"]
             /\ UNCHANGED tx
    /\ UNCHANGED <<rows, lock, orderID, err, expired, mapResponse, page, limit, cursor,
                   effect, stmts, found, prior, again, succeeded>>
    /\ UNCHANGED <<request, disconnected, stalled>>
    /\ Responds(p)

\* tx.Query, rows.Next(), rows.Scan and the status check; lines 215-233.
\* rows.Next() is also false when the step fails, and rows.Err() is not read.
TakeQuery(p, flt) ==
    /\ pc[p] = "take_query"
    /\ \E o \in (IF expired[p] THEN {"queryerr"}
                 ELSE {"read"} \cup (IF flt THEN {"queryerr", "nexterr", "scanerr"} ELSE {})) :
        LET res == SelectStatus(rows, orderID[p])
            e   == CASE o = "queryerr" -> "unable to query for order ID"
                     [] o = "nexterr" -> errNoSuchOrder
                     [] o = "scanerr" /\ res # <<>> -> "row.Scan() failed"
                     [] OTHER -> TakeCheck(res)
            f   == CASE o = "queryerr" -> "query"
                     [] o = "nexterr" -> "next"
                     [] o = "scanerr" /\ res # <<>> -> "scan"
                     [] OTHER -> "none"
        IN  /\ lock' = [lock EXCEPT ![p] = IF o = "queryerr" THEN lock[p] ELSE "SHARED"]
            /\ err' = [err EXCEPT ![p] = e]
            /\ fault' = [fault EXCEPT ![p] = f]
            /\ IF e = nil
               THEN /\ pc' = [pc EXCEPT ![p] = "take_exec"]
                    /\ ret' = ret
               ELSE /\ pc' = [pc EXCEPT ![p] = "take_defer"]
                    /\ ret' = [ret EXCEPT ![p] = RetErr(e)]
    /\ UNCHANGED <<rows, orderID, tx, expired, mapResponse, page, limit, cursor,
                   effect, stmts, found, prior, again, succeeded>>
    /\ UNCHANGED <<request, disconnected, stalled>>
    /\ Responds(p)

\* _, err = tx.Exec("UPDATE ..."); lines 234-239. A connection that holds SHARED
\* and cannot get RESERVED is refused at once (SQLITE_BUSY, no busy handler).
TakeExec(p, flt) ==
    /\ pc[p] = "take_exec"
    /\ \E o \in (IF expired[p] THEN {"err"}
                 ELSE (IF OtherReserved(p) THEN {"busy"} ELSE {"ok"})
                      \cup (IF flt THEN {"err"} ELSE {})) :
        IF o = "ok"
        THEN /\ lock' = [lock EXCEPT ![p] = "RESERVED"]
             /\ err' = [err EXCEPT ![p] = nil]
             /\ ret' = [ret EXCEPT ![p] = RetErr(nil)]
             /\ fault' = fault
        ELSE LET e == IF o = "busy" THEN "database is locked" ELSE "driver error"
             IN  /\ err' = [err EXCEPT ![p] = e]
                 /\ ret' = [ret EXCEPT ![p] = RetErr(e)]
                 /\ fault' = [fault EXCEPT ![p] = "exec"]
                 /\ lock' = lock
    /\ pc' = [pc EXCEPT ![p] = "take_defer"]
    /\ stmts' = [stmts EXCEPT ![p] = TRUE]
    /\ UNCHANGED <<rows, orderID, tx, expired, mapResponse, page, limit, cursor,
                   effect, found, prior, again, succeeded>>
    /\ UNCHANGED <<request, disconnected, stalled>>
    /\ Responds(p)

\* the deferred function, lines 207-213: tx.Commit() if err == nil, else
\* tx.Rollback(); neither result is read. COMMIT needs the EXCLUSIVE lock: it
\* waits while other connections hold locks and fails when the wait times out.
TakeDefer(p, flt) ==
    /\ pc[p] = "take_defer"
    /\ \E o \in (IF err[p] # nil THEN {"rollback"}
                 ELSE IF expired[p] THEN {"commiterr"}
                 ELSE (IF OthersUnlocked(p) THEN {"commit"} ELSE {})
                      \cup (IF flt THEN {"commiterr"} ELSE {})) :
        /\ rows' = IF o = "commit" THEN UpdateStatus(rows, orderID[p]) ELSE rows
        /\ tx' = [tx EXCEPT ![p] = IF o = "commit" THEN "committed" ELSE "rolledback"]
        /\ fault' = [fault EXCEPT ![p] = IF o = "commiterr" THEN "commit" ELSE fault[p]]
        /\ effect' = [effect EXCEPT ![p] = o = "commit" /\ UpdateStatus(rows, orderID[p]) # rows]
    /\ lock' = [lock EXCEPT ![p] = "NONE"]
    /\ pc' = [pc EXCEPT ![p] = "take_done"]
    /\ again' = [again EXCEPT ![p] = ret[p].err = nil /\ orderID[p] \in succeeded]
    /\ succeeded' = IF ret[p].err = nil THEN succeeded \cup {orderID[p]} ELSE succeeded
    /\ UNCHANGED <<orderID, err, ret, expired, mapResponse, page, limit, cursor,
                   stmts, found, prior>>
    /\ UNCHANGED <<request, disconnected, stalled>>
    /\ Responds(p)

\* ---------------------------------------------------------------- Insert
\* calls of Insert that have not yet reached the INSERT statement
PendingInserts == Cardinality({q \in Procs : pc[q] \in {"ins_get", "ins_exec"}})

\* POST /orders with a well-formed payload: the handler calls Insert; lines 96-103
InsertCall(p) ==
    /\ pc[p] = "idle"
    /\ Len(rows) + PendingInserts < MaxOrders
    /\ pc' = [pc EXCEPT ![p] = "ins_get"]
    /\ UNCHANGED <<rows, lock, orderID, err, ret, tx, expired, mapResponse, page, limit,
                   cursor, fault, effect, stmts, found, prior, again, succeeded>>
    /\ UNCHANGED <<request, disconnected, stalled>>
    /\ Responds(p)

\* s.Client.Get(url), decoding and the two length checks; lines 107-134
InsertGet(p) ==
    /\ pc[p] = "ins_get"
    /\ \E r \in LookupResponses :
        /\ mapResponse' = [mapResponse EXCEPT ![p] = r]
        /\ IF LookupError(r) # nil
           THEN /\ ret' = [ret EXCEPT ![p] = RetErr(LookupError(r))]
                /\ fault' = [fault EXCEPT ![p] = "lookup"]
                /\ pc' = [pc EXCEPT ![p] = "ins_done"]
           ELSE /\ pc' = [pc EXCEPT ![p] = "ins_exec"]
                /\ UNCHANGED <<ret, fault>>
    /\ UNCHANGED <<rows, lock, orderID, err, tx, expired, page, limit, cursor,
                   effect, stmts, found, prior, again, succeeded>>
    /\ UNCHANGED <<request, disconnected, stalled>>
    /\ Responds(p)

\* s.DB.Exec("INSERT ..."), rowResult.LastInsertId() and the return; lines
\* 136-150. The statement runs in autocommit mode and needs the EXCLUSIVE lock:
\* it waits while other connections hold locks and fails when the wait times out.
InsertExec(p, flt) ==
    /\ pc[p] = "ins_exec"
    /\ \E o \in (IF OthersUnlocked(p) THEN {"ok"} \cup (IF flt THEN {"lastiderr"} ELSE {})
                 ELSE {})
                \cup (IF flt THEN {"execerr"} ELSE {}) :
        /\ rows' = IF o = "execerr" THEN rows ELSE InsertRow(rows, FirstDistance(mapResponse[p]))
        /\ effect' = [effect EXCEPT ![p] = o # "execerr"]
        /\ fault' = [fault EXCEPT ![p] =
                        CASE o = "execerr" -> "exec"
                          [] o = "lastiderr" -> "lastid"
                          [] OTHER -> "none"]
        /\ ret' = [ret EXCEPT ![p] =
                      CASE o = "execerr" -> RetErr("unable to insert")
                        [] o = "lastiderr" -> RetErr("unable to insert, no row")
                        [] OTHER -> [val |-> <<NewOrder(LastInsertId(rows), FirstDistance(mapResponse[p]))>>,
                                     err |-> nil]]
    /\ stmts' = [stmts EXCEPT ![p] = TRUE]
    /\ pc' = [pc EXCEPT ![p] = "ins_done"]
    /\ UNCHANGED <<lock, orderID, err, tx, expired, mapResponse, page, limit, cursor,
                   found, prior, again, succeeded>>
    /\ UNCHANGED <<request, disconnected, stalled>>
    /\ Responds(p)

\* POST /orders: the handler reads the body and parses it; a body the parser
\* rejects is answered 400 with the parser's message, any other goes on to
\* orderService.Insert(*details); lines 335-346
PostOrders(p, body) ==
    /\ pc[p] = "idle"
    /\ request' = [request EXCEPT ![p] = body]
    /\ IF parseCreateOrderDetails(body) # nil
       THEN /\ pc' = [pc EXCEPT ![p] = "http_done"]
            /\ response' = [response EXCEPT ![p] =
                    Reply(400, HTTPResponseError(parseCreateOrderDetails(body)))]
       ELSE /\ Len(rows) + PendingInserts < MaxOrders
            /\ pc' = [pc EXCEPT ![p] = "ins_get"]
            /\ UNCHANGED response
    /\ UNCHANGED <<rows, lock, orderID, err, ret, tx, expired, mapResponse, page, limit,
                   cursor, fault, effect, stmts, found, prior, again, succeeded,
                   disconnected, stalled>>

\* ---------------------------------------------------------------- GET /orders
\* a string is the sequence of its characters
Digit ==
    ("0" :> 0) @@ ("1" :> 1) @@ ("2" :> 2) @@ ("3" :> 3) @@ ("4" :> 4) @@
    ("5" :> 5) @@ ("6" :> 6) @@ ("7" :> 7) @@ ("8" :> 8) @@ ("9" :> 9)
RECURSIVE DigitsValue(_, _)
DigitsValue(str, acc) ==
    IF str = <<>> THEN acc ELSE DigitsValue(Tail(str), acc * 10 + Digit[Head(str)])
\* strconv.Atoi: an optional sign and at least one decimal digit, or a syntax
\* error with the value 0
Atoi(str) ==
    LET signed == str # <<>> /\ Head(str) \in {"+", "-"}
        digits == IF signed THEN Tail(str) ELSE str
    IN  IF digits # <<>> /\ \A i \in DOMAIN digits : digits[i] \in DOMAIN Digit
        THEN [val |-> IF signed /\ Head(str) = "-" THEN 0 - DigitsValue(digits, 0)
                      ELSE DigitsValue(digits, 0),
              err |-> nil]
        ELSE [val |-> 0, err |-> "strconv.Atoi: invalid syntax"]

\* the values of a query parameter and the queries of a GET request (url.Values)
QueryStrings == {<<"3">>, <<"5">>, <<"1", "2">>, <<"-", "1">>, <<"x">>, <<>>}
ParamLists == {<<>>} \cup {<<v>> : v \in QueryStrings} \cup {<< <<"3">>, <<"5">> >>}
Queries == [page : ParamLists, limit : ParamLists]

\* variant of parseQueryParametersForList: the two values change places
parseQueryParametersForListSwapMut(qparams) ==
    IF Len(qparams.page) > 1 \/ Len(qparams.limit) > 1
    THEN [page |-> 0, limit |-> 50, err |-> nil]
    ELSE LET pg == IF Len(qparams.page) = 1 THEN Atoi(qparams.page[1])
                   ELSE [val |-> 0, err |-> nil]
         IN  IF pg.err # nil THEN [page |-> pg.val, limit |-> 50, err |-> pg.err]
             ELSE LET lm == IF Len(qparams.limit) = 1 THEN Atoi(qparams.limit[1])
                            ELSE [val |-> 50, err |-> nil]
                  IN  IF lm.err # nil THEN [page |-> lm.val, limit |-> pg.val, err |-> lm.err]
                      ELSE [page |-> lm.val, limit |-> pg.val, err |-> nil]
\* variant of parseQueryParametersForList: the defaults are 1 and 10
parseQueryParametersForListDefaultsMut(qparams) ==
    IF Len(qparams.page) > 1 \/ Len(qparams.limit) > 1
    THEN [page |-> 1, limit |-> 10, err |-> nil]
    ELSE LET pg == IF Len(qparams.page) = 1 THEN Atoi(qparams.page[1])
                   ELSE [val |-> 1, err |-> nil]
         IN  IF pg.err # nil THEN [page |-> pg.val, limit |-> 10, err |-> pg.err]
             ELSE LET lm == IF Len(qparams.limit) = 1 THEN Atoi(qparams.limit[1])
                            ELSE [val |-> 10, err |-> nil]
                  IN  IF lm.err # nil THEN [page |-> pg.val, limit |-> lm.val, err |-> lm.err]
                      ELSE [page |-> pg.val, limit |-> lm.val, err |-> nil]
\* parseQueryParametersForList, lines 379-400
parseQueryParametersForList(qparams) ==
    IF Len(qparams.page) > 1 \/ Len(qparams.limit) > 1
    THEN [page |-> 0, limit |-> 50, err |-> nil]
    ELSE LET pg == IF Len(qparams.page) = 1 THEN Atoi(qparams.page[1])
                   ELSE [val |-> 0, err |-> nil]
         IN  IF pg.err # nil THEN [page |-> pg.val, limit |-> 50, err |-> pg.err]
             ELSE LET lm == IF Len(qparams.limit) = 1 THEN Atoi(qparams.limit[1])
                            ELSE [val |-> 50, err |-> nil]
                  IN  IF lm.err # nil THEN [page |-> pg.val, limit |-> lm.val, err |-> lm.err]
                      ELSE [page |-> pg.val, limit |-> lm.val, err |-> nil]

\* GET /orders: the handler parses the query, answers 400 when the parser
\* returns an error and calls orderService.List(page, limit) otherwise;
\* lines 314-323
GetOrders(p, qparams) ==
    /\ pc[p] = "idle"
    /\ request' = [request EXCEPT ![p] = qparams]
    /\ LET r == parseQueryParametersForList(qparams) IN
       IF r.err # nil
       THEN /\ pc' = [pc EXCEPT ![p] = "http_done"]
            /\ response' = [response EXCEPT ![p] =
                    Reply(400, HTTPResponseError("INVALID_PARAMETERS"))]
            /\ UNCHANGED <<page, limit>>
       ELSE /\ pc' = [pc EXCEPT ![p] = "list_query"]
            /\ page' = [page EXCEPT ![p] = r.page]
            /\ limit' = [limit EXCEPT ![p] = r.limit]
            /\ UNCHANGED response
    /\ UNCHANGED <<rows, lock, orderID, err, ret, tx, expired, mapResponse, cursor,
                   fault, effect, stmts, found, prior, again, succeeded,
                   disconnected, stalled>>

\* ---------------------------------------------------------------- List
\* GET /orders: the handler calls List(page, limit); line 154
ListCall(p, pg, lm) ==
    /\ pc[p] = "idle"
    /\ pc' = [pc EXCEPT ![p] = "list_query"]
    /\ page' = [page EXCEPT ![p] = pg]
    /\ limit' = [limit EXCEPT ![p] = lm]
    /\ UNCHANGED <<rows, lock, orderID, err, ret, tx, expired, mapResponse, cursor,
                   fault, effect, stmts, found, prior, again, succeeded>>
    /\ UNCHANGED <<request, disconnected, stalled>>
    /\ Responds(p)

\* s.DB.Query("SELECT ... LIMIT ? OFFSET ?", limit, page); lines 155-159. The
\* statement holds the SHARED lock until its rows are closed.
ListQuery(p, flt) ==
    /\ pc[p] = "list_query"
    /\ \E o \in {"ok"} \cup (IF flt THEN {"err"} ELSE {}) :
        IF o = "ok"
        THEN /\ cursor' = [cursor EXCEPT ![p] = Window(rows, page[p], limit[p])]
             /\ lock' = [lock EXCEPT ![p] = "SHARED"]
             /\ pc' = [pc EXCEPT ![p] = "list_scan"]
             /\ UNCHANGED <<ret, fault>>
        ELSE /\ ret' = [ret EXCEPT ![p] = RetErr("SELECT ... FROM failed")]
             /\ fault' = [fault EXCEPT ![p] = "query"]
             /\ pc' = [pc EXCEPT ![p] = "list_done"]
             /\ UNCHANGED <<cursor, lock>>
    /\ stmts' = [stmts EXCEPT ![p] = TRUE]
    /\ UNCHANGED <<rows, orderID, err, tx, expired, mapResponse, page, limit,
                   effect, found, prior, again, succeeded>>
    /\ UNCHANGED <<request, disconnected, stalled>>
    /\ Responds(p)

\* the loop over rows.Next(), the deferred rows.Close() and the return; lines
\* 159-182. rows.Next() is also false when a step fails (k rows were read), and
\* rows.Err() is not read.
ListScan(p, flt) ==
    /\ pc[p] = "list_scan"
    /\ \E k \in (IF flt THEN 0..Len(cursor[p]) ELSE {Len(cursor[p])}) :
       \E o \in {"ok"} \cup (IF flt /\ k > 0 THEN {"scanerr"} ELSE {}) :
        /\ ret' = [ret EXCEPT ![p] =
                      IF o = "scanerr" THEN RetErr("row.Scan() failed")
                      ELSE ListLoop(SubSeq(cursor[p], 1, k), <<>>)]
        /\ fault' = [fault EXCEPT ![p] =
                        IF o = "scanerr" THEN "scan"
                        ELSE IF k < Len(cursor[p]) THEN "next" ELSE "none"]
    /\ lock' = [lock EXCEPT ![p] = "NONE"]
    /\ cursor' = [cursor EXCEPT ![p] = <<>>]
    /\ pc' = [pc EXCEPT ![p] = "list_done"]
    /\ UNCHANGED <<rows, orderID, err, tx, expired, mapResponse, page, limit,
                   effect, stmts, found, prior, again, succeeded>>
    /\ UNCHANGED <<request, disconnected, stalled>>
    /\ Responds(p)

\* ---------------------------------------------------------------- return
\* the call returns to its handler, which answers the request and ends
Return(p) ==
    /\ pc[p] \in DonePcs
    /\ pc' = [pc EXCEPT ![p] = "idle"]
    /\ orderID' = [orderID EXCEPT ![p] = 0]
    /\ err' = [err EXCEPT ![p] = nil]
    /\ ret' = [ret EXCEPT ![p] = NoRet]
    /\ tx' = [tx EXCEPT ![p] = "none"]
    /\ expired' = [expired EXCEPT ![p] = FALSE]
    /\ mapResponse' = [mapResponse EXCEPT ![p] = NoResponse]
    /\ page' = [page EXCEPT ![p] = 0]
    /\ limit' = [limit EXCEPT ![p] = 0]
    /\ fault' = [fault EXCEPT ![p] = "none"]
    /\ effect' = [effect EXCEPT ![p] = FALSE]
    /\ stmts' = [stmts EXCEPT ![p] = FALSE]
    /\ found' = [found EXCEPT ![p] = FALSE]
    /\ prior' = [prior EXCEPT ![p] = FALSE]
    /\ again' = [again EXCEPT ![p] = FALSE]
    /\ request' = [request EXCEPT ![p] = NoBody]
    /\ response' = [response EXCEPT ![p] = NoReply]
    /\ disconnected' = [disconnected EXCEPT ![p] = FALSE]
    /\ UNCHANGED <<rows, lock, cursor, succeeded, stalled>>

\* ---------------------------------------------------------------- specifications
\* Spec: the store and the deadline may fail any call.
Next ==
    \E p \in Procs :
        \/ \E id \in OrderIDs : TakeCall(p, id)
        \/ Expire(p)
        \/ TakeBeginTx(p, TRUE)
        \/ TakeQuery(p, TRUE)
        \/ TakeExec(p, TRUE)
        \/ TakeDefer(p, TRUE)
        \/ InsertCall(p)
        \/ InsertGet(p)
        \/ InsertExec(p, TRUE)
        \/ \E pg \in Pages, lm \in Limits : ListCall(p, pg, lm)
        \/ ListQuery(p, TRUE)
        \/ ListScan(p, TRUE)
        \/ Return(p)

Spec == Init /\ [][Next]_vars

\* SpecReliable: every store call succeeds unless SQLite's locking refuses it,
\* and no deadline passes.
NextReliable ==
    \E p \in Procs :
        \/ \E id \in OrderIDs : TakeCall(p, id)
        \/ TakeBeginTx(p, FALSE)
        \/ TakeQuery(p, FALSE)
        \/ TakeExec(p, FALSE)
        \/ TakeDefer(p, FALSE)
        \/ InsertCall(p)
        \/ InsertGet(p)
        \/ InsertExec(p, FALSE)
        \/ \E pg \in Pages, lm \in Limits : ListCall(p, pg, lm)
        \/ ListQuery(p, FALSE)
        \/ ListScan(p, FALSE)
        \/ Return(p)

SpecReliable == Init /\ [][NextReliable]_vars

\* SpecPost: POST /orders requests with every kind of body; the store may fail.
NextPost ==
    \E p \in Procs :
        \/ \E body \in Bodies : PostOrders(p, body)
        \/ InsertGet(p)
        \/ InsertExec(p, TRUE)
        \/ Return(p)

SpecPost == Init /\ [][NextPost]_vars

\* SpecList: GET /orders requests on a store that nothing writes. The store
\* holds rows 1..n of which at most one is not UNASSIGNED: it is TAKEN or holds
\* a status the program does not know.
MaxListRows == 7
ListPages == {0, 1, 3}
ListLimits == {0, 2, 3}
Stores ==
    {[i \in 1..n |-> [id |-> i, distance |-> 1000 + i,
                      status |-> IF i = k THEN st ELSE StateUnassigned]] :
        n \in 0..MaxListRows, k \in 0..MaxListRows, st \in {StateTaken, "INITAL"}}

InitList ==
    /\ rows \in Stores
    /\ lock = [p \in Procs |-> "NONE"]
    /\ pc = [p \in Procs |-> "idle"]
    /\ orderID = [p \in Procs |-> 0]
    /\ err = [p \in Procs |-> nil]
    /\ ret = [p \in Procs |-> NoRet]
    /\ tx = [p \in Procs |-> "none"]
    /\ expired = [p \in Procs |-> FALSE]
    /\ mapResponse = [p \in Procs |-> NoResponse]
    /\ page = [p \in Procs |-> 0]
    /\ limit = [p \in Procs |-> 0]
    /\ cursor = [p \in Procs |-> <<>>]
    /\ fault = [p \in Procs |-> "none"]
    /\ effect = [p \in Procs |-> FALSE]
    /\ stmts = [p \in Procs |-> FALSE]
    /\ found = [p \in Procs |-> FALSE]
    /\ prior = [p \in Procs |-> FALSE]
    /\ again = [p \in Procs |-> FALSE]
    /\ succeeded = {}
    /\ request = [p \in Procs |-> NoBody]
    /\ response = [p \in Procs |-> NoReply]
    /\ disconnected = [p \in Procs |-> FALSE]
    /\ stalled = FALSE

NextList ==
    \E p \in Procs :
        \/ \E pg \in ListPages, lm \in ListLimits : ListCall(p, pg, lm)
        \/ ListQuery(p, TRUE)
        \/ ListScan(p, TRUE)
        \/ Return(p)

SpecList == InitList /\ [][NextList]_vars

\* SpecStored: PATCH requests on a store that holds rows already, one of them
\* possibly TAKEN or of a status the program does not know; the store and the
\* deadline may fail any call and the client may disconnect.
NextStored ==
    \E p \in Procs :
        \/ \E id \in OrderIDs : TakeCall(p, id)
        \/ Disconnect(p)
        \/ Expire(p)
        \/ TakeBeginTx(p, TRUE)
        \/ TakeQuery(p, TRUE)
        \/ TakeExec(p, TRUE)
        \/ TakeDefer(p, TRUE)
        \/ Return(p)

\* the stores of SpecList that hold no more rows than ids are asked for
InitStored == InitList /\ Len(rows) <= MaxOrders

SpecStored == InitStored /\ [][NextStored]_vars

\* SpecStall: as Spec, and the store may stop answering for good. A call made
\* with ctx (Take's BeginTx, Query, Exec, Commit) returns once the deadline has
\* passed; s.DB.Exec in Insert and s.DB.Query in List are made without a
\* context and wait for the store. The lookup is bounded by the 3 s Timeout of
\* s.Client (line 248). A rollback gives the same result whether the store
\* answers or the deadline ends the transaction.
Stall ==
    /\ ~stalled
    /\ stalled' = TRUE
    /\ UNCHANGED <<rows, lock, pc, orderID, err, ret, tx, expired, mapResponse, page, limit,
                   cursor, fault, effect, stmts, found, prior, again, succeeded,
                   request, response, disconnected>>

\* the steps by which the call that p handles moves on
ForwardStall(p) ==
    \/ Expire(p)
    \/ (~stalled \/ expired[p]) /\ TakeBeginTx(p, TRUE)
    \/ (~stalled \/ expired[p]) /\ TakeQuery(p, TRUE)
    \/ (~stalled \/ expired[p]) /\ TakeExec(p, TRUE)
    \/ (~stalled \/ expired[p] \/ err[p] # nil) /\ TakeDefer(p, TRUE)
    \/ InsertGet(p)
    \/ ~stalled /\ InsertExec(p, TRUE)
    \/ ~stalled /\ ListQuery(p, TRUE)
    \/ ~stalled /\ ListScan(p, TRUE)

NextStall ==
    \/ Stall
    \/ \E p \in Procs :
        \/ \E id \in OrderIDs : TakeCall(p, id)
        \/ InsertCall(p)
        \/ \E pg \in Pages, lm \in Limits : ListCall(p, pg, lm)
        \/ ForwardStall(p)
        \/ Return(p)

SpecStall == Init /\ [][NextStall]_vars

\* SpecQuery: GET /orders requests with every query on the empty store; no
\* store call fails.
NextQuery ==
    \E p \in Procs :
        \/ \E qparams \in Queries : GetOrders(p, qparams)
        \/ ListQuery(p, FALSE)
        \/ ListScan(p, FALSE)
        \/ Return(p)

SpecQuery == Init /\ [][NextQuery]_vars

\* SpecQueryStored: as SpecQuery, on stores that hold rows already.
SpecQueryStored == InitStored /\ [][NextQuery]_vars

\* ---------------------------------------------------------------- List, row by row
\* ListQuery and ListScan read the window of a List call in one step. The two
\* actions below read it as SQLite does, one row of the stored table for each
\* rows.Next(), under the SHARED lock of the statement.
\* s.DB.Query("SELECT ... LIMIT ? OFFSET ?", limit, page); lines 155-159
ListRows(p) ==
    /\ pc[p] = "list_query"
    /\ cursor' = [cursor EXCEPT ![p] = <<>>]
    /\ lock' = [lock EXCEPT ![p] = "SHARED"]
    /\ pc' = [pc EXCEPT ![p] = "list_next"]
    /\ stmts' = [stmts EXCEPT ![p] = TRUE]
    /\ UNCHANGED <<rows, orderID, err, ret, tx, expired, mapResponse, page, limit,
                   fault, effect, found, prior, again, succeeded>>
    /\ UNCHANGED <<request, disconnected, stalled>>
    /\ Responds(p)

\* one rows.Next() of the loop, lines 163-181: the statement steps to the row
\* after those it has read, while the table has one and LIMIT allows it; else
\* the loop ends, the deferred rows.Close() gives up the lock and List returns
ListNext(p) ==
    /\ pc[p] = "list_next"
    /\ LET off  == IF page[p] < 0 THEN 0 ELSE page[p]
           i    == off + Len(cursor[p]) + 1
           more == i <= Len(rows) /\ (limit[p] < 0 \/ Len(cursor[p]) < limit[p])
       IN  IF more
           THEN /\ cursor' = [cursor EXCEPT ![p] = Append(cursor[p], rows[i])]
                /\ UNCHANGED <<pc, ret, lock>>
           ELSE /\ ret' = [ret EXCEPT ![p] = ListLoop(cursor[p], <<>>)]
                /\ lock' = [lock EXCEPT ![p] = "NONE"]
                /\ cursor' = [cursor EXCEPT ![p] = <<>>]
                /\ pc' = [pc EXCEPT ![p] = "list_done"]
    /\ UNCHANGED <<rows, orderID, err, tx, expired, mapResponse, page, limit,
                   fault, effect, stmts, found, prior, again, succeeded>>
    /\ UNCHANGED <<request, disconnected, stalled>>
    /\ Responds(p)

\* SpecRows: Insert, Take and List calls run concurrently, List reading row by
\* row; every store call succeeds unless SQLite's locking refuses it.
NextRows ==
    \E p \in Procs :
        \/ \E id \in OrderIDs : TakeCall(p, id)
        \/ TakeBeginTx(p, FALSE)
        \/ TakeQuery(p, FALSE)
        \/ TakeExec(p, FALSE)
        \/ TakeDefer(p, FALSE)
        \/ InsertCall(p)
        \/ InsertGet(p)
        \/ InsertExec(p, FALSE)
        \/ \E pg \in Pages, lm \in Limits : ListCall(p, pg, lm)
        \/ ListRows(p)
        \/ ListNext(p)
        \/ Return(p)

SpecRows == Init /\ [][NextRows]_vars

\* ---------------------------------------------------------------- properties
TakeDone(p) == pc[p] = "take_done"
\* errors that are neither nil nor one of the two sentinel values
Generic(e) == e \notin {nil, errTaken, errNoSuchOrder}
\* the lookup gave no usable first element
LookupFailed(r) ==
    r.neterr \/ ~r.decodable \/ Len(r.rows) = 0 \/ Len(r.rows[1]) = 0

\* C1: at most one Take on a given id ever returns nil: no Take returns nil on
\* an id on which a Take has already returned nil.
C1_AtMostOneTakeSucceeds ==
    \A p \in Procs : TakeDone(p) /\ ret[p].err = nil => ~again[p]

\* C2: of the Take calls issued against an existing order, at most one returns
\* nil and every other one returns errTaken, none a generic error; and when all
\* handlers have finished a Take on the same existing order, it was taken.
C2_LosersGetErrTaken ==
    /\ \A p \in Procs : TakeDone(p) /\ found[p] =>
            /\ ret[p].err \in {nil, errTaken}
            /\ ~again[p]
    /\ \A i \in OrderIDs :
            (\A p \in Procs : TakeDone(p) /\ found[p] /\ orderID[p] = i)
                => i \in succeeded

\* C3: once a Take on an order has returned nil, every later Take on that id
\* (here: every later one whose own store calls all succeed) returns errTaken.
C3_TakenStaysTaken ==
    \A p \in Procs :
        TakeDone(p) /\ prior[p] /\ fault[p] = "none" => ret[p].err = errTaken

\* C4: Take returns nil only when its transaction committed, and when BeginTx,
\* Query, Scan, Exec or Commit fails it returns a generic error and the
\* transaction is not committed.
C4_SuccessMeansCommitted ==
    \A p \in Procs : TakeDone(p) =>
        /\ ret[p].err = nil => tx[p] = "committed"
        /\ fault[p] \in {"begin", "query", "scan", "exec", "commit"} =>
              Generic(ret[p].err) /\ tx[p] \in {"none", "rolledback"}

\* C5: in every step no row disappears and a status that changes changes from
\* UNASSIGNED to TAKEN.
C5_StatusOnlyUnassignedToTaken ==
    [][\A i \in DOMAIN rows :
          /\ i \in DOMAIN rows'
          /\ rows'[i].status # rows[i].status =>
                rows[i].status = StateUnassigned /\ rows'[i].status = StateTaken]_vars

\* a Take found order TAKEN and left it TAKEN
C5_Witness ==
    \E p \in Procs :
        /\ TakeDone(p) /\ ret[p].err = errTaken
        /\ orderID[p] \in DOMAIN rows /\ rows[orderID[p]].status = StateTaken

\* C6: a finished Take on an id without a row changed nothing and did not
\* return nil; when its BeginTx and Query succeeded it returned errNoSuchOrder
\* and its transaction is rolled back.
C6_NoSuchOrder ==
    \A p \in Procs :
        TakeDone(p) /\ SelectStatus(rows, orderID[p]) = <<>> =>
            /\ ~effect[p]
            /\ ret[p].err # nil
            /\ lock[p] = "NONE"
            /\ fault[p] \notin {"begin", "query"} =>
                  ret[p].err = errNoSuchOrder /\ tx[p] = "rolledback"

\* all handlers have finished a Take on the same absent id with errNoSuchOrder
C6_Witness ==
    \E i \in OrderIDs :
        /\ SelectStatus(rows, i) = <<>>
        /\ \A p \in Procs :
              /\ TakeDone(p) /\ orderID[p] = i
              /\ fault[p] = "none" /\ ret[p].err = errNoSuchOrder

\* C7: a call of Insert, List or Take that returns an error has not changed
\* the stored rows.
C7_ErrorLeavesStoreUnchanged ==
    \A p \in Procs : pc[p] \in DonePcs /\ ret[p].err # nil => ~effect[p]

\* C8: a Take whose deadline passed during the call returns an error and has
\* not changed the order.
C8_DeadlineMeansFailure ==
    \A p \in Procs :
        TakeDone(p) /\ expired[p] => ret[p].err # nil /\ ~effect[p]

\* C9: an Insert whose lookup failed returns an error and no order, has issued
\* no store statement and added no row; a store statement is only issued after
\* a lookup that succeeded.
C9_LookupFailureInsertsNothing ==
    \A p \in Procs :
        /\ pc[p] = "ins_done" /\ LookupFailed(mapResponse[p]) =>
              /\ ret[p].err # nil /\ ret[p].val = <<>>
              /\ ~stmts[p] /\ ~effect[p]
        /\ pc[p] \in {"ins_exec", "ins_done"} /\ (stmts[p] \/ pc[p] = "ins_exec") =>
              ~LookupFailed(mapResponse[p])

\* an Insert failed on a body the decoder rejected although rows were decoded
C9_Witness ==
    \E p \in Procs :
        /\ pc[p] = "ins_done"
        /\ ~mapResponse[p].decodable /\ mapResponse[p].rows # <<>>
        /\ ret[p].err = "unable to decode response"
        /\ rows # <<>>

\* C10: the step in which Insert succeeds appends exactly one row; the Order
\* returned has the id generated for that row, status UNASSIGNED and the
\* distance of the first element of the first row of the response, and it is
\* what List reports for that row.
C10_InsertReturnsStoredRow ==
    [][\A p \in Procs :
          pc[p] = "ins_exec" /\ pc'[p] = "ins_done" /\ ret'[p].err = nil =>
              /\ Len(rows') = Len(rows) + 1
              /\ SubSeq(rows', 1, Len(rows)) = rows
              /\ Len(ret'[p].val) = 1
              /\ ret'[p].val[1].Id = rows'[Len(rows')].id
              /\ \A i \in DOMAIN rows : rows[i].id # ret'[p].val[1].Id
              /\ ret'[p].val[1].State = StateUnassigned
              /\ ret'[p].val[1].Distance = Float64(mapResponse[p].rows[1][1])
              /\ ListLoop(<<rows'[Len(rows')]>>, <<>>) = [val |-> ret'[p].val, err |-> nil]]_vars

\* an Insert returned the second order, with the distance of the first element
C10_Witness ==
    \E p \in Procs :
        /\ pc[p] = "ins_done" /\ ret[p].err = nil
        /\ Len(mapResponse[p].rows) = 2
        /\ ret[p].val = <<Order(2, 7, StateUnassigned)>>

\* C11: no two rows have the same id, a row keeps the id of its position (ids
\* are given in order and never given again), and Insert calls that have
\* succeeded hold the ids of distinct rows.
C11_OneRowPerId ==
    /\ \A i \in DOMAIN rows : rows[i].id = i
    /\ \A i, j \in DOMAIN rows : rows[i].id = rows[j].id => i = j
    /\ \A p \in Procs : pc[p] = "ins_done" /\ ret[p].err = nil =>
            ret[p].val[1].Id \in DOMAIN rows
    /\ \A p, q \in Procs :
            /\ p # q
            /\ pc[p] = "ins_done" /\ ret[p].err = nil
            /\ pc[q] = "ins_done" /\ ret[q].err = nil
            => ret[p].val[1].Id # ret[q].val[1].Id

\* two Insert calls that ran concurrently have both succeeded
C11_Witness ==
    /\ Len(rows) = 2
    /\ \E p, q \in Procs :
          /\ p # q
          /\ pc[p] = "ins_done" /\ ret[p].err = nil /\ ret[p].val[1].Id = 1
          /\ pc[q] = "ins_done" /\ ret[q].err = nil /\ ret[q].val[1].Id = 2

\* C12: every stored order has a positive distance (Create fails rather than
\* store the value 0 of an element without a distance).
C12_StoredDistancePositive ==
    \A i \in DOMAIN rows : rows[i].distance > 0

\* C20: the step that ends a Take's transaction changes nothing but the status
\* of the row whose id is orderID, and no other step of a Take changes a row.
C20_TakeFrame ==
    [][\A p \in Procs :
          /\ pc[p] = "take_defer" /\ pc'[p] = "take_done" =>
                /\ DOMAIN rows' = DOMAIN rows
                /\ \A i \in DOMAIN rows :
                      /\ rows'[i].id = rows[i].id
                      /\ rows'[i].distance = rows[i].distance
                      /\ rows[i].id # orderID[p] => rows'[i] = rows[i]
          /\ pc[p] \in TakePcs \ {"take_defer"} /\ pc'[p] # pc[p] => rows' = rows]_vars

\* a Take has taken one of two orders and the other is still UNASSIGNED
C20_Witness ==
    \E p \in Procs :
        /\ TakeDone(p) /\ effect[p]
        /\ Len(rows) = 2
        /\ \E i \in DOMAIN rows : i # orderID[p] /\ rows[i].status = StateUnassigned

\* ---------------------------------------------------------------- handlers and List
\* the body as a whole is a JSON text
ValidJSON(b) == b.value # "syntaxerror" /\ ~b.trailing
\* a List call has returned and no store call of it failed
ListDone(p) == pc[p] = "list_done" /\ fault[p] = "none"
\* the order a stored row stands for
StoredOrder(i) == Order(rows[i].id, rows[i].distance, rows[i].status)
\* the status of row i is one the program knows
Known(i) == rows[i].status \in {StateUnassigned, StateTaken}
\* the orders of the rows off+1 .. off+lm, as far as they exist
RowsFrom(off, lm) ==
    LET rest == IF Len(rows) > off THEN Len(rows) - off ELSE 0
        n    == IF rest < lm THEN rest ELSE lm
    IN  [i \in 1..n |-> StoredOrder(off + i)]
\* the positions a window of lm rows after the first off rows covers
WindowRows(off, lm) == {i \in DOMAIN rows : off < i /\ i <= off + lm}

\* C13: a POST /orders request whose body is not a JSON text, or whose origin or
\* destination does not hold two elements, is answered with a code other than
\* 200 before Insert is called: no lookup, no store statement, no change.
C13_MalformedPostRejected ==
    \A p \in Procs :
        /\ request[p] # NoBody
        /\ \/ ~ValidJSON(request[p])
           \/ request[p].origin # 2
           \/ request[p].destination # 2
        => /\ pc[p] = "http_done"
           /\ response[p].code \notin {0, 200}
           /\ mapResponse[p] = NoResponse
           /\ ~stmts[p]
           /\ ~effect[p]

\* C14: with at least six rows, List(3, 3) returns the orders 4, 5, 6 in this
\* order with their stored status; a List that succeeds returns the orders of
\* the first limit rows after the first page rows.
C14_SkipPageTakeLimit ==
    \A p \in Procs : ListDone(p) =>
        /\ /\ Len(rows) >= 6 /\ page[p] = 3 /\ limit[p] = 3
           /\ \A i \in 4..6 : Known(i)
           => /\ ret[p].err = nil
              /\ ret[p].val = <<StoredOrder(4), StoredOrder(5), StoredOrder(6)>>
        /\ ret[p].err = nil => ret[p].val = RowsFrom(page[p], limit[p])

\* List(3, 3) on seven rows has returned the orders 4, 5, 6, one of them TAKEN
C14_Witness ==
    \E p \in Procs :
        /\ ListDone(p) /\ page[p] = 3 /\ limit[p] = 3 /\ Len(rows) = 7
        /\ Len(ret[p].val) = 3 /\ ret[p].val[1].Id = 4 /\ ret[p].val[3].Id = 6
        /\ \E i \in 1..3 : ret[p].val[i].State = StateTaken

\* C15 as stated: a List that succeeds returns the orders of the rows at
\* offsets page * limit .. page * limit + limit - 1.
C15_OffsetPageTimesLimit ==
    \A p \in Procs :
        ListDone(p) /\ ret[p].err = nil => ret[p].val = RowsFrom(page[p] * limit[p], limit[p])

\* C15: a List that succeeds returns at most limit orders, with consecutive
\* ascending ids that start at page + 1, and as many as there are rows after
\* the first page rows, up to limit.
C15_OffsetPage ==
    \A p \in Procs :
        ListDone(p) /\ ret[p].err = nil =>
            LET v == ret[p].val IN
            /\ Len(v) <= limit[p]
            /\ \A i \in DOMAIN v : v[i].Id = page[p] + i
            /\ \A i \in DOMAIN v : v[i].Id \in DOMAIN rows
            /\ Len(v) < limit[p] => page[p] + Len(v) >= Len(rows)

\* List(1, 2) on three rows has returned the orders 2, 3 (page * limit = 2
\* would give the order 3 alone)
C15_Witness ==
    \E p \in Procs :
        /\ ListDone(p) /\ page[p] = 1 /\ limit[p] = 2 /\ Len(rows) = 3
        /\ Len(ret[p].val) = 2 /\ ret[p].val[1].Id = 2

\* C16: List(0, k) returns at most k orders; a List whose window holds no row
\* (beyond the last row, or an empty store) returns the empty sequence with no
\* error and the handler answers 200 with [].
C16_WindowBounds ==
    \A p \in Procs : ListDone(p) =>
        /\ page[p] = 0 => Len(ret[p].val) <= limit[p]
        /\ page[p] >= Len(rows) =>
              /\ ret[p] = [val |-> <<>>, err |-> nil]
              /\ response[p].code = 200
              /\ response[p].body = <<>>

\* a List of a window beyond the last row of a store that holds rows has returned
C16_Witness ==
    \E p \in Procs :
        /\ ListDone(p) /\ Len(rows) = 2 /\ page[p] = 3 /\ limit[p] = 3
        /\ response[p].code = 200

C18_UnknownStatusFails ==
    \A p \in Procs :
        /\ ListDone(p)
        /\ \E i \in WindowRows(page[p], limit[p]) : ~Known(i)
        => /\ ret[p].err # nil
           /\ ret[p].val = <<>>
           /\ response[p].code = 500

\* a List has failed on a row of unknown status that was not the first of its window
C18_Witness ==
    \E p \in Procs :
        /\ ListDone(p) /\ ret[p].err = "found unknonwn status"
        /\ \E i \in WindowRows(page[p], limit[p]) : ~Known(i) /\ i > page[p] + 1

\* C19: the PATCH handler answers nil with 200 SUCCESS, errTaken with 409
\* ORDER_ALREADY_BEEN_TAKEN, errNoSuchOrder with 404 NO_SUCH_ORDER and any
\* other error with 500; 404 is answered only when no row had the id, and 409
\* only when the row is TAKEN.
C19_PatchMapping ==
    \A p \in Procs : TakeDone(p) =>
        /\ ret[p].err = nil =>
              response[p] = [code |-> 200, body |-> [status |-> "SUCCESS"]]
        /\ ret[p].err = errTaken =>
              response[p] = [code |-> 409, body |-> [error |-> "ORDER_ALREADY_BEEN_TAKEN"]]
        /\ ret[p].err = errNoSuchOrder =>
              response[p] = [code |-> 404, body |-> [error |-> "NO_SUCH_ORDER"]]
        /\ Generic(ret[p].err) => response[p].code = 500
        /\ response[p].code = 404 => ~found[p]
        /\ response[p].code = 409 =>
              orderID[p] \in DOMAIN rows /\ rows[orderID[p]].status = StateTaken

\* ---------------------------------------------------------------- rows, Create, transactions
\* an Insert has returned with an error
InsertFailed(p) == pc[p] = "ins_done" /\ ret[p].err # nil
\* the cause of a failed Insert
Cause(p) ==
    CASE mapResponse[p].neterr -> "transport"
      [] ~mapResponse[p].decodable -> "malformed"
      [] LookupFailed(mapResponse[p]) -> "empty"
      [] OTHER -> "store"

\* C21: no step removes a row or changes the id or the distance of a row, and
\* only the INSERT step of an Insert adds a row (one row).
C21_RowsOnlyGrow ==
    [][/\ Len(rows') >= Len(rows)
       /\ \A i \in DOMAIN rows :
             rows'[i].id = rows[i].id /\ rows'[i].distance = rows[i].distance
       /\ Len(rows') > Len(rows) =>
             /\ Len(rows') = Len(rows) + 1
             /\ \E p \in Procs : pc[p] = "ins_exec" /\ pc'[p] = "ins_done"]_vars

\* two rows with a positive distance exist and one of them has been taken
C21_Witness ==
    /\ Len(rows) = 2
    /\ rows[1].distance > 0
    /\ \E i \in DOMAIN rows : rows[i].status = StateTaken

\* C22: two Inserts that failed for different causes (transport, malformed
\* response, empty result, store) give their callers different errors and
\* their HTTP clients different responses.
C22_DistinctFailureKinds ==
    \A p, q \in Procs :
        InsertFailed(p) /\ InsertFailed(q) /\ Cause(p) # Cause(q) =>
            /\ ret[p].err # ret[q].err
            /\ response[p] # response[q]

C26_TxEndedOnce ==
    \A p \in Procs : TakeDone(p) /\ fault[p] # "begin" =>
        /\ tx[p] \in {"committed", "rolledback"}
        /\ tx[p] = "committed" <=> ret[p].err = nil

\* C29: every stored status is UNASSIGNED or TAKEN, List never fails on a
\* status it does not know, and a Take is answered errTaken only for a row
\* that is TAKEN.
C29_TwoStatusLiterals ==
    /\ \A i \in DOMAIN rows : rows[i].status \in {StateUnassigned, StateTaken}
    /\ \A p \in Procs : pc[p] = "list_done" => ret[p].err # "found unknonwn status"
    /\ \A p \in Procs :
          TakeDone(p) /\ ret[p].err = errTaken /\ fault[p] = "none" =>
              orderID[p] \in DOMAIN rows /\ rows[orderID[p]].status = StateTaken

\* an order that Insert created has been taken and a List has returned it
C29_Witness ==
    /\ \E p \in Procs : TakeDone(p) /\ ret[p].err = nil /\ effect[p]
    /\ \E q \in Procs :
          /\ pc[q] = "list_done" /\ ret[q].err = nil
          /\ \E i \in DOMAIN ret[q].val : ret[q].val[i].State = StateTaken

\* C27: a Take whose deadline passed or whose client disconnected before the
\* commit has not committed and has changed no row.
C27_CancelRollsBack ==
    \A p \in Procs :
        TakeDone(p) /\ (expired[p] \/ disconnected[p]) =>
            /\ tx[p] # "committed"
            /\ ~effect[p]

\* C30: a Take never reaches its UPDATE on a row that is not UNASSIGNED; a Take
\* on an existing row that found it not UNASSIGNED issues no UPDATE and has
\* errTaken; a Take that returns errTaken has rolled back and changed nothing.
C30_NotUnassignedIsTaken ==
    \A p \in Procs :
        /\ pc[p] = "take_exec" /\ ~expired[p] =>
              orderID[p] \in DOMAIN rows /\ rows[orderID[p]].status = StateUnassigned
        /\ /\ pc[p] \in {"take_defer", "take_done"}
           /\ fault[p] = "none" /\ ~expired[p] /\ found[p] /\ ~stmts[p]
           => err[p] = errTaken /\ ret[p].err = errTaken
        /\ TakeDone(p) /\ ret[p].err = errTaken =>
              tx[p] = "rolledback" /\ ~effect[p] /\ ~stmts[p]

\* a Take on a row of unknown status has returned errTaken and the row is as it was
C30_Witness ==
    \E p \in Procs :
        /\ TakeDone(p) /\ ret[p].err = errTaken /\ tx[p] = "rolledback"
        /\ orderID[p] \in DOMAIN rows
        /\ rows[orderID[p]].status \notin {StateUnassigned, StateTaken}

\* a call of Insert, List or Take is running
InFlight(p) == pc[p] \notin DonePcs \cup {"idle"}

\* C28: no call of Insert, List or Take is ever blocked: whatever the store and
\* the lookup do, a call that has not returned can make its next step.
C28_NeverBlocked ==
    \A p \in Procs : InFlight(p) => ENABLED ForwardStall(p)

\* ---------------------------------------------------------------- query parameters
\* the integers the decimal strings among QueryStrings stand for
Decimal == (<<"3">> :> 3) @@ (<<"5">> :> 5) @@ (<<"1", "2">> :> 12) @@ (<<"-", "1">> :> 0 - 1)
\* a parameter is absent, or given once as a decimal integer
Usable(l) == l = <<>> \/ (Len(l) = 1 /\ l[1] \in DOMAIN Decimal)
\* the value of a usable parameter, def when it is absent
Supplied(l, def) == IF l = <<>> THEN def ELSE Decimal[l[1]]
\* p handles a GET request
Getting(p) == request[p] \in Queries

Negative(l) == Len(l) = 1 /\ l[1] \in DOMAIN Decimal /\ Decimal[l[1]] < 0
\* a parameter is given more than once, or once with a value that is not a
\* decimal integer
Unusable(l) == ~Usable(l)

\* C32: a GET request whose page or limit stands for a negative integer is
\* answered 400 INVALID_PARAMETERS and issues no store statement; List is
\* called with non-negative arguments only and returns at most limit orders.
C32_NegativeRejected ==
    \A p \in Procs : Getting(p) =>
        /\ Negative(request[p].page) \/ Negative(request[p].limit) =>
              /\ pc[p] = "http_done"
              /\ response[p] = [code |-> 400, body |-> [error |-> "INVALID_PARAMETERS"]]
              /\ ~stmts[p]
        /\ pc[p] # "http_done" => page[p] >= 0 /\ limit[p] >= 0
        /\ pc[p] = "list_done" => Len(ret[p].val) <= limit[p]

\* C33: a GET request whose page or limit is given more than once, or is not a
\* decimal integer, is answered 400 INVALID_PARAMETERS and List is not called.
C33_ParseFailureIsError ==
    \A p \in Procs :
        Getting(p) /\ (Unusable(request[p].page) \/ Unusable(request[p].limit)) =>
            /\ pc[p] = "http_done"
            /\ response[p] = [code |-> 400, body |-> [error |-> "INVALID_PARAMETERS"]]
            /\ ~stmts[p]

\* C31: a List call that runs beside Insert and Take calls returns the orders
\* of the requested window of the store as it is when its loop over the rows
\* ends, one state between its start and its return: no row it returns comes
\* from another state, and none shows an uncommitted INSERT or UPDATE.
C31_SnapshotPerCall ==
    [][\A p \in Procs :
          pc[p] = "list_next" /\ pc'[p] = "list_done" =>
              ret'[p] = [val |-> RowsFrom(page[p], limit[p]), err |-> nil]]_vars
\* a List call has returned an order as UNASSIGNED while a Take of that order
\* holds its UPDATE uncommitted
C31_ListBesideOpenTake ==
    \E p \in Procs, q \in Procs :
        /\ p # q
        /\ pc[p] = "list_done" /\ Len(ret[p].val) = 2
        /\ pc[q] = "take_defer" /\ lock[q] = "RESERVED" /\ err[q] = nil
        /\ \E i \in DOMAIN ret[p].val :
              /\ ret[p].val[i].Id = orderID[q]
              /\ ret[p].val[i].State = StateUnassigned

====
